---- MODULE Spec2Model ----
(***************************************************************************)
(* Model of scripts/smiles_to_image.py: one run of the command-line tool.  *)
(* A run parses its arguments, resolves the SMILES text, hands it to the   *)
(* cheminformatics library and renders the molecule to the output path.    *)
(* Text is modelled as sequences of characters so that str.strip,          *)
(* str.splitlines and str.lower are computed, not assumed.  The library's  *)
(* parser is an external collaborator: for each text it is handed it       *)
(* answers with a molecule or with None, and the model allows both.        *)
(***************************************************************************)
EXTENDS Integers, Sequences, FiniteSets, TLC

\* ---------------------------------------------------------------- bounds
MaxLen == 2
MaxDepth == 2

\* ------------------------------------------------------ program constants
DefaultWidth == 400
DefaultHeight == 300

\* ------------------------------------------------------------ text model
Whitespace == {" ", "\n"}
Chars == {"C", "-"} \cup Whitespace
Strings == UNION {[1..n -> Chars] : n \in 0..MaxLen}

None == {}
Some(x) == {x}
Get(opt) == CHOOSE x \in opt : TRUE
Option(S) == {None} \cup {Some(x) : x \in S}

RECURSIVE LStrip(_)
LStrip(s) ==
    IF s = <<>> THEN s
    ELSE IF Head(s) \in Whitespace THEN LStrip(Tail(s)) ELSE s

RECURSIVE RStrip(_)
RStrip(s) ==
    IF s = <<>> THEN s
    ELSE IF s[Len(s)] \in Whitespace THEN RStrip(SubSeq(s, 1, Len(s) - 1)) ELSE s

\* str.strip(): leading and trailing whitespace removed
strip(s) == RStrip(LStrip(s))

\* str.splitlines(): lines without their terminators; a final terminator
\* opens no further line, and the empty text has no lines
RECURSIVE splitlines(_)
splitlines(s) ==
    IF s = <<>> THEN <<>>
    ELSE LET brk == {i \in 1..Len(s) : s[i] = "\n"}
         IN  IF brk = {} THEN <<s>>
             ELSE LET i == CHOOSE k \in brk : \A j \in brk : k <= j
                  IN  <<SubSeq(s, 1, i - 1)>> \o splitlines(SubSeq(s, i + 1, Len(s)))

\* str.lower() on the letters an output suffix is spelled with
LowerChar(c) ==
    CASE c = "S" -> "s"
      [] c = "V" -> "v"
      [] c = "G" -> "g"
      [] c = "P" -> "p"
      [] c = "N" -> "n"
      [] OTHER -> c

lower(s) == [i \in DOMAIN s |-> LowerChar(s[i])]

\* ------------------------------------------------------- inputs of a run
Dash == <<"-">>
InputPath == "smiles.txt"
\* Path.suffix of the output path: none, or a dot and letters
Suffixes == { <<>>, <<".", "s", "v", "g">>, <<".", "S", "V", "G">>,
              <<".", "p", "n", "g">> }
\* an output path: `depth` directories above the file, and the file's suffix
OutputPaths == [depth : 0..MaxDepth, suffix : Suffixes]
SizeValues == {0, 1}
Sizes == SizeValues \X SizeValues

OldContent == [kind |-> "old", smiles |-> <<>>, size |-> <<0, 0>>]

NoArgs == [smiles |-> None, input |-> None,
           output |-> [depth |-> 0, suffix |-> <<>>],
           size |-> <<DefaultWidth, DefaultHeight>>]

VARIABLES
    pc,         \* the statement of main() the run is at
    args,       \* the argparse.Namespace
    stdin,      \* what sys.stdin.read() returned, None while unread
    fileText,   \* what args.input.read_text() returned, None while unread
    smiles,     \* the value read_smiles returned, None before
    molecule,   \* the value Chem.MolFromSmiles returned, None for null
    fs,         \* the filesystem under the output path
    fs0,        \* the filesystem when the run started
    exitStatus, \* the process exit status, None while running
    stderr,     \* the message written to standard error
    trace       \* the library and I/O calls made so far, in order

vars == <<pc, args, stdin, fileText, smiles, molecule, fs, fs0,
          exitStatus, stderr, trace>>

\* ------------------------------------------------------------ filesystem
\* directories 1..dirs of the output path's chain exist; files maps the
\* (depth, suffix) places that hold a file to the file's content
FileAt(f, path) == {x \in f.files : x.depth = path.depth /\ x.suffix = path.suffix}

\* mkdir without parents: only one missing directory is created
mkdir_one_level(f, path) ==
    [f EXCEPT !.dirs = IF path.depth > f.dirs THEN f.dirs + 1 ELSE f.dirs]

\* Path.mkdir(parents=True, exist_ok=True) on the output path's parent
mkdir(f, path) ==
    [f EXCEPT !.dirs = IF path.depth > f.dirs THEN path.depth ELSE f.dirs]

\* the file at path created, or replaced, with content
write(f, path, content) ==
    [f EXCEPT !.files = (f.files \ FileAt(f, path)) \cup
                        {[depth |-> path.depth, suffix |-> path.suffix,
                          content |-> content]}]

Init ==
    /\ pc = "parse_args"
    /\ args = NoArgs
    /\ stdin = None
    /\ fileText = None
    /\ smiles = None
    /\ molecule = None
    /\ \E d \in 0..MaxDepth, old \in BOOLEAN :
          fs = [dirs |-> d,
                files |-> IF old
                          THEN {[depth |-> k, suffix |-> e, content |-> OldContent] :
                                    k \in 0..d, e \in Suffixes}
                          ELSE {}]
    /\ fs0 = fs
    /\ exitStatus = None
    /\ stderr = <<>>
    /\ trace = <<>>

\* ------------------------------------------------------------ parse_args
UsageMessage == <<"the following arguments are required: --output">>

parse_args ==
    /\ pc = "parse_args"
    /\ \E smilesOpt \in Option(Strings), inputOpt \in Option({InputPath}),
          outputOpt \in Option(OutputPaths), sizeOpt \in Option(Sizes) :
          IF outputOpt = None
          THEN /\ pc' = "exit"
               /\ exitStatus' = Some(2)
               /\ stderr' = UsageMessage
               /\ args' = args
          ELSE /\ pc' = "read_smiles"
               /\ args' = [smiles |-> smilesOpt, input |-> inputOpt,
                           output |-> Get(outputOpt),
                           size |-> IF sizeOpt = None
                                    THEN <<DefaultWidth, DefaultHeight>>
                                    ELSE Get(sizeOpt)]
               /\ UNCHANGED <<exitStatus, stderr>>
    /\ UNCHANGED <<stdin, fileText, smiles, molecule, fs, fs0, trace>>

\* ----------------------------------------------------------- read_smiles
NoSourceMessage == <<"Please provide a SMILES string with --smiles or --input.">>
IndexErrorMessage == <<"IndexError: list index out of range">>

\* truth value of an optional str: None and the empty string are false
Truthy(opt) == opt # None /\ Get(opt) # <<>>

\* read_smiles looking at --input before --smiles
ReadSmilesResultInputFirst(a, stdinText, text) ==
    IF a.input # None
    THEN IF splitlines(text) = <<>>
         THEN [kind |-> "IndexError", source |-> "file", value |-> <<>>]
         ELSE [kind |-> "return", source |-> "file",
               value |-> strip(splitlines(text)[1])]
    ELSE IF Truthy(a.smiles)
         THEN IF Get(a.smiles) = Dash
              THEN [kind |-> "return", source |-> "stdin", value |-> strip(stdinText)]
              ELSE [kind |-> "return", source |-> "argument",
                    value |-> strip(Get(a.smiles))]
         ELSE [kind |-> "SystemExit", source |-> "none", value |-> <<>>]

\* read_smiles skipping the empty lines at the head of the --input file
ReadSmilesResultFirstNonEmpty(a, stdinText, text) ==
    LET lines == SelectSeq(splitlines(text), LAMBDA l : l # <<>>) IN
    IF Truthy(a.smiles)
    THEN IF Get(a.smiles) = Dash
         THEN [kind |-> "return", source |-> "stdin", value |-> strip(stdinText)]
         ELSE [kind |-> "return", source |-> "argument", value |-> strip(Get(a.smiles))]
    ELSE IF a.input # None
         THEN IF lines = <<>>
              THEN [kind |-> "IndexError", source |-> "file", value |-> <<>>]
              ELSE [kind |-> "return", source |-> "file", value |-> strip(lines[1])]
         ELSE [kind |-> "SystemExit", source |-> "none", value |-> <<>>]

\* read_smiles returning the content of stdin as it is, untrimmed
ReadSmilesResultStdinRaw(a, stdinText, text) ==
    IF Truthy(a.smiles)
    THEN IF Get(a.smiles) = Dash
         THEN [kind |-> "return", source |-> "stdin", value |-> stdinText]
         ELSE [kind |-> "return", source |-> "argument", value |-> strip(Get(a.smiles))]
    ELSE IF a.input # None
         THEN IF splitlines(text) = <<>>
              THEN [kind |-> "IndexError", source |-> "file", value |-> <<>>]
              ELSE [kind |-> "return", source |-> "file",
                    value |-> strip(splitlines(text)[1])]
         ELSE [kind |-> "SystemExit", source |-> "none", value |-> <<>>]

\* what read_smiles does with the namespace a, when stdin holds stdinText
\* and the --input file holds text: the source it reads, and how it ends
ReadSmilesResult(a, stdinText, text) ==
    IF Truthy(a.smiles)
    THEN IF Get(a.smiles) = Dash
         THEN [kind |-> "return", source |-> "stdin", value |-> strip(stdinText)]
         ELSE [kind |-> "return", source |-> "argument", value |-> strip(Get(a.smiles))]
    ELSE IF a.input # None
         THEN IF splitlines(text) = <<>>
              THEN [kind |-> "IndexError", source |-> "file", value |-> <<>>]
              ELSE [kind |-> "return", source |-> "file",
                    value |-> strip(splitlines(text)[1])]
         ELSE [kind |-> "SystemExit", source |-> "none", value |-> <<>>]

\* the source read_smiles takes the text from, decided by the namespace alone
SourceOf(a) == ReadSmilesResult(a, <<>>, <<>>).source

\* the contents the run can find in a source: any text when the source is
\* read, and left open (the empty text stands for it) when it is not
ContentsOf(src, a) == IF SourceOf(a) = src THEN Strings ELSE {<<>>}

read_smiles ==
    /\ pc = "read_smiles"
    /\ \E stdinText \in ContentsOf("stdin", args), text \in ContentsOf("file", args) :
          LET r == ReadSmilesResult(args, stdinText, text) IN
          /\ stdin' = IF r.source = "stdin" THEN Some(stdinText) ELSE stdin
          /\ fileText' = IF r.source = "file" THEN Some(text) ELSE fileText
          /\ trace' = CASE r.source = "stdin" -> Append(trace, "stdin.read")
                         [] r.source = "file" -> Append(trace, "read_text")
                         [] OTHER -> trace
          /\ CASE r.kind = "return" ->
                    /\ smiles' = Some(r.value)
                    /\ pc' = "build_molecule"
                    /\ UNCHANGED <<exitStatus, stderr>>
               [] r.kind = "IndexError" ->
                    /\ pc' = "exit"
                    /\ exitStatus' = Some(1)
                    /\ stderr' = IndexErrorMessage
                    /\ UNCHANGED smiles
               [] OTHER ->
                    /\ pc' = "exit"
                    /\ exitStatus' = Some(1)
                    /\ stderr' = NoSourceMessage
                    /\ UNCHANGED smiles
    /\ UNCHANGED <<args, molecule, fs, fs0>>

\* -------------------------------------------------------- build_molecule
\* Chem.MolFromSmiles: the library answers a text with a molecule or None
MolFromSmiles(s) == {None, Some([smiles |-> s, coords |-> FALSE])}

\* the error message without the offending text
InvalidMessageNoEcho(s) == <<"Invalid SMILES string: ">>

InvalidMessage(s) == <<"Invalid SMILES string: ">> \o s

\* build_molecule preparing the output directory before it parses
build_molecule_mkdir_first ==
    /\ pc = "build_molecule"
    /\ \E m \in MolFromSmiles(Get(smiles)) :
          IF m = None
          THEN /\ molecule' = None
               /\ trace' = Append(trace, "MolFromSmiles")
               /\ pc' = "exit"
               /\ exitStatus' = Some(1)
               /\ stderr' = InvalidMessage(Get(smiles))
          ELSE /\ molecule' = Some([Get(m) EXCEPT !.coords = TRUE])
               /\ trace' = trace \o <<"MolFromSmiles", "Compute2DCoords">>
               /\ pc' = "save_drawing"
               /\ UNCHANGED <<exitStatus, stderr>>
    /\ fs' = mkdir(fs, args.output)
    /\ UNCHANGED <<args, stdin, fileText, smiles, fs0>>

build_molecule ==
    /\ pc = "build_molecule"
    /\ \E m \in MolFromSmiles(Get(smiles)) :
          IF m = None
          THEN /\ molecule' = None
               /\ trace' = Append(trace, "MolFromSmiles")
               /\ pc' = "exit"
               /\ exitStatus' = Some(1)
               /\ stderr' = InvalidMessage(Get(smiles))
          ELSE /\ molecule' = Some([Get(m) EXCEPT !.coords = TRUE])
               /\ trace' = trace \o <<"MolFromSmiles", "Compute2DCoords">>
               /\ pc' = "save_drawing"
               /\ UNCHANGED <<exitStatus, stderr>>
    /\ UNCHANGED <<args, stdin, fileText, smiles, fs, fs0>>

\* ---------------------------------------------------------- save_drawing
\* the suffix compared as it is spelled
IsSvgCaseSensitive(path) == path.suffix = <<".", "s", "v", "g">>

\* suffix = output_path.suffix.lower(); suffix == ".svg"
IsSvg(path) == lower(path.suffix) = <<".", "s", "v", "g">>

save_drawing_mkdir ==
    /\ pc = "save_drawing"
    /\ fs' = mkdir(fs, args.output)
    /\ trace' = Append(trace, "mkdir")
    /\ pc' = "render"
    /\ UNCHANGED <<args, stdin, fileText, smiles, molecule, fs0, exitStatus, stderr>>

save_drawing_svg ==
    /\ pc = "render"
    /\ IsSvg(args.output)
    /\ fs' = write(fs, args.output,
                   [kind |-> "svg", smiles |-> Get(molecule).smiles, size |-> args.size])
    /\ trace' = trace \o <<"MolDraw2DSVG", "write_text">>
    /\ pc' = "exit"
    /\ exitStatus' = Some(0)
    /\ UNCHANGED <<args, stdin, fileText, smiles, molecule, fs0, stderr>>

save_drawing_raster ==
    /\ pc = "render"
    /\ ~IsSvg(args.output)
    /\ fs' = write(fs, args.output,
                   [kind |-> "raster", smiles |-> Get(molecule).smiles, size |-> args.size])
    /\ trace' = trace \o <<"MolToImage", "image.save">>
    /\ pc' = "exit"
    /\ exitStatus' = Some(0)
    /\ UNCHANGED <<args, stdin, fileText, smiles, molecule, fs0, stderr>>

\* ------------------------------------------------------------------ main
Next ==
    \/ parse_args
    \/ read_smiles
    \/ build_molecule
    \/ save_drawing_mkdir
    \/ save_drawing_svg
    \/ save_drawing_raster

Spec == Init /\ [][Next]_vars

\* ============================================================ properties
Called(e) == \E i \in DOMAIN trace : trace[i] = e
IndexOf(e) == CHOOSE i \in DOMAIN trace : trace[i] = e
ReadCalls == SelectSeq(trace, LAMBDA e : e \in {"stdin.read", "read_text"})
RenderCalls == SelectSeq(trace, LAMBDA e : e \in {"MolDraw2DSVG", "MolToImage"})
WriteCalls == SelectSeq(trace, LAMBDA e : e \in {"write_text", "image.save"})

\* the command line was accepted and read_smiles has run
ReadDone == pc \notin {"parse_args", "read_smiles"} /\ stderr # UsageMessage
\* the run has ended and its command line was accepted
Ended == pc = "exit" /\ stderr # UsageMessage
ParserSaidNull == Called("MolFromSmiles") /\ molecule = None

\* msg contains s as a contiguous part
Contains(msg, s) ==
    \E i \in 0..(Len(msg) - Len(s)) : SubSeq(msg, i + 1, i + Len(s)) = s

NoEdgeWhitespace(s) ==
    s # <<>> => (s[1] \notin Whitespace /\ s[Len(s)] \notin Whitespace)

\* s is t without its surrounding whitespace, said without strip
IsTrimOf(s, t) ==
    /\ NoEdgeWhitespace(s)
    /\ \E i \in 0..Len(t) :
          /\ i + Len(s) <= Len(t)
          /\ SubSeq(t, i + 1, i + Len(s)) = s
          /\ \A k \in 1..i : t[k] \in Whitespace
          /\ \A k \in (i + Len(s) + 1)..Len(t) : t[k] \in Whitespace

\* the text of t before its first line break, said without splitlines
FirstLineOf(t) ==
    SubSeq(t, 1, CHOOSE n \in 0..Len(t) :
                    /\ \A k \in 1..n : t[k] # "\n"
                    /\ (n < Len(t) => t[n + 1] = "\n"))

\* the content of the file at the output path, when there is exactly one
OutputFile == FileAt(fs, args.output)
Written(kind) ==
    OutputFile = {[depth |-> args.output.depth, suffix |-> args.output.suffix,
                   content |-> [kind |-> kind, smiles |-> Get(smiles),
                                size |-> args.size]]}

\* ------------------------------------------------------------------- C1
\* C1 (as claimed): every run whose command line was accepted ends in one
\* of three ways: non-zero exit with the no-source message when no source
\* was given, non-zero exit with the invalid-SMILES message when the parser
\* returned null, or exit zero after the output file was written.
C1_ThreeOutcomes ==
    Ended =>
        \/ /\ exitStatus \notin {None, Some(0)}
           /\ stderr = NoSourceMessage
           /\ smiles = None /\ ReadCalls = <<>>
        \/ /\ exitStatus \notin {None, Some(0)}
           /\ ParserSaidNull
           /\ stderr = InvalidMessage(Get(smiles))
        \/ /\ exitStatus = Some(0)
           /\ Written("svg") \/ Written("raster")

\* ------------------------------------------------------------------- C2
\* C2: whenever the library parser returned null for the resolved text, the
\* run has ended with a non-zero exit status and a message that contains
\* that text, which is the trimmed text, and Compute2DCoords was not called.
C2_NullMoleculeExits ==
    ParserSaidNull =>
        /\ pc = "exit"
        /\ exitStatus \notin {None, Some(0)}
        /\ Contains(stderr, Get(smiles))
        /\ stderr # Get(smiles)
        /\ NoEdgeWhitespace(Get(smiles))
        /\ ~Called("Compute2DCoords")

\* C2 witness: the parser rejected a non-empty text that was trimmed from
\* a longer --smiles value.
C2_Witness ==
    /\ ParserSaidNull
    /\ Get(smiles) # <<>>
    /\ args.smiles # None /\ Get(args.smiles) # Get(smiles)
    /\ Get(args.smiles) # Dash

\* ------------------------------------------------------------------- C3
UserError ==
    /\ Ended
    /\ \/ stderr = NoSourceMessage
       \/ smiles # None /\ stderr = InvalidMessage(Get(smiles))

\* C3: a run that ended with the no-source error or the invalid-SMILES
\* error left the filesystem as it found it: no directory was made, no file
\* was created or overwritten, and save_drawing made no call.
C3_ErrorLeavesFilesystem ==
    UserError =>
        /\ fs = fs0
        /\ ~Called("mkdir")
        /\ RenderCalls = <<>> /\ WriteCalls = <<>>

\* C3 witness: an invalid-SMILES exit of a run whose output directory was
\* missing.
C3_Witness ==
    /\ UserError /\ ParserSaidNull
    /\ fs0.dirs < args.output.depth

\* ------------------------------------------------------------------- C4
\* C4 (as claimed): when --smiles is given it is the source (its trimmed
\* value, or trimmed stdin for "-") and the --input file is never read; the
\* file is read only when --smiles is not given.  Stated of the runs in
\* which read_smiles returned a text.
C4_SmilesGivenNeverReadsInput ==
    (ReadDone /\ smiles # None) =>
        /\ args.smiles # None => ~Called("read_text")
        /\ Called("read_text") => args.smiles = None

\* C4 (amended): read_smiles reads at most one source.  When --smiles is
\* given with a non-empty value it is the source: the trimmed value, or the
\* trimmed content of stdin when the value is exactly "-", and the --input
\* file is not read.  The file is read only when --smiles is absent or
\* empty.  The returned text has no leading or trailing whitespace.
C4_NonEmptySmilesHasPriority ==
    ReadDone =>
        /\ Len(ReadCalls) <= 1
        /\ args.smiles \notin {None, Some(<<>>)} =>
              /\ ~Called("read_text") /\ fileText = None
              /\ smiles # None
              /\ IF Get(args.smiles) = Dash
                 THEN /\ ReadCalls = <<"stdin.read">>
                      /\ IsTrimOf(Get(smiles), Get(stdin))
                 ELSE /\ ReadCalls = <<>> /\ stdin = None
                      /\ IsTrimOf(Get(smiles), Get(args.smiles))
        /\ Called("read_text") =>
              /\ args.smiles \in {None, Some(<<>>)}
              /\ args.input # None
        /\ smiles # None => NoEdgeWhitespace(Get(smiles))

\* C4 witness: both --smiles (with whitespace around it) and --input were
\* given, and the text returned is the trimmed --smiles value.
C4_Witness ==
    /\ ReadDone
    /\ args.smiles \notin {None, Some(<<>>), Some(Dash)}
    /\ args.input # None
    /\ smiles # None /\ smiles # args.smiles /\ Get(smiles) # <<>>

\* ------------------------------------------------------------------- C5
NonEmptyLines(t) == SelectSeq(splitlines(t), LAMBDA l : l # <<>>)

\* C5 (as claimed): when the --input file is the source, the text returned
\* is the trimmed first non-empty line of the file.
C5_FirstNonEmptyLine ==
    (ReadDone /\ Called("read_text") /\ NonEmptyLines(Get(fileText)) # <<>>) =>
        /\ smiles # None
        /\ IsTrimOf(Get(smiles), NonEmptyLines(Get(fileText))[1])

\* C5 (amended): when the --input file is the source, the text returned is
\* the trimmed first line of the file, empty when that line is empty or
\* blank whatever follows it; a file with no line returns nothing, the run
\* ends on the IndexError.
C5_FirstLineTrimmed ==
    (ReadDone /\ Called("read_text")) =>
        IF Get(fileText) = <<>>
        THEN smiles = None /\ pc = "exit" /\ stderr = IndexErrorMessage
        ELSE /\ smiles # None
             /\ IsTrimOf(Get(smiles), FirstLineOf(Get(fileText)))

\* C5 witness: the file starts with an empty line and goes on with a
\* non-empty one, and the text returned is empty.
C5_Witness ==
    /\ ReadDone /\ Called("read_text")
    /\ Get(fileText) # <<>> /\ Get(fileText)[1] = "\n"
    /\ NonEmptyLines(Get(fileText)) # <<>>
    /\ smiles = Some(<<>>)

\* ------------------------------------------------------------------- C6
\* the run with the same arguments but --smiles s
Inline(s) == [args EXCEPT !.smiles = Some(s)]

\* C6 (as claimed): a run with --smiles - and stdin content t resolves the
\* same text, from no other source, as the run with --smiles s, s being t
\* without its surrounding whitespace, whatever the --input file holds.
C6_StdinSameAsInline ==
    (ReadDone /\ args.smiles = Some(Dash)) =>
        \A s \in Strings : IsTrimOf(s, Get(stdin)) =>
            \A text \in Strings :
                LET r == ReadSmilesResult(Inline(s), Get(stdin), text) IN
                /\ r.kind = "return"
                /\ r.source # "file"
                /\ Some(r.value) = smiles

\* C6 (amended): the same, for every stdin content t that is not empty
\* after trimming.
C6_StdinSameAsNonEmptyInline ==
    (ReadDone /\ args.smiles = Some(Dash)) =>
        \A s \in Strings \ {<<>>} : IsTrimOf(s, Get(stdin)) =>
            \A text \in Strings :
                LET r == ReadSmilesResult(Inline(s), Get(stdin), text) IN
                /\ r.kind = "return"
                /\ r.source # "file"
                /\ Some(r.value) = smiles

\* C6 witness: stdin held a non-empty text with whitespace around it, and
\* --input was given too.
C6_Witness ==
    /\ ReadDone /\ args.smiles = Some(Dash)
    /\ args.input # None
    /\ smiles \notin {None, Some(<<>>), Some(Dash)}
    /\ stdin # smiles

\* ------------------------------------------------------------------- C7
Saved == pc = "exit" /\ exitStatus = Some(0)

\* C7 (as claimed): the file written is SVG text if the suffix is .svg and
\* the raster image for every other suffix.  Stated of the runs whose
\* SMILES text is not empty.
C7_SvgOnlyForDotSvg ==
    (Saved /\ Get(smiles) # <<>>) =>
        IF args.output.suffix = <<".", "s", "v", "g">>
        THEN Written("svg") /\ RenderCalls = <<"MolDraw2DSVG">>
        ELSE Written("raster") /\ RenderCalls = <<"MolToImage">>

\* every spelling of .svg in upper and lower case letters
SvgSpellings == {"."} \X {"s", "S"} \X {"v", "V"} \X {"g", "G"}
SpelledSvg(x) == x \in SvgSpellings

\* C7 (amended): a run that saved used exactly one renderer, chosen by the
\* suffix of the output path alone, compared without regard to case: the
\* SVG drawer, its text written, if the suffix is .svg in any spelling
\* (.svg, .SVG, ...), and the raster renderer for every other suffix, also
\* for none.
C7_RendererBySuffixIgnoringCase ==
    Saved =>
        /\ Len(RenderCalls) = 1 /\ Len(WriteCalls) = 1
        /\ IF SpelledSvg(args.output.suffix)
           THEN /\ Written("svg")
                /\ RenderCalls = <<"MolDraw2DSVG">> /\ WriteCalls = <<"write_text">>
           ELSE /\ Written("raster")
                /\ RenderCalls = <<"MolToImage">> /\ WriteCalls = <<"image.save">>

\* C7 witness: SVG text was written to a path whose suffix is .SVG.
C7_Witness ==
    /\ Saved /\ Written("svg")
    /\ args.output.suffix = <<".", "S", "V", "G">>

C9_SizePositive ==
    (RenderCalls # <<>> /\ Get(smiles) # <<>>) =>
        (args.size[1] > 0 /\ args.size[2] > 0)

\* ------------------------------------------------------------------ C10
\* C10 (as claimed): a run whose resolved text is empty ends with the
\* invalid-SMILES error and a non-zero exit, and never reaches
\* save_drawing.
C10_EmptySmilesNeverSaved ==
    smiles = Some(<<>>) =>
        /\ pc \notin {"save_drawing", "render"}
        /\ ~Called("mkdir")
        /\ pc = "exit" =>
              /\ exitStatus \notin {None, Some(0)}
              /\ stderr = InvalidMessage(<<>>)

====
